---------------------------- MODULE Spec2Model ----------------------------
(***************************************************************************)
(* State-machine model of the community bot of src/main.py: the broadcast  *)
(* cycle loop (envoyer_pub_entreprise), the album aggregator               *)
(* (handle_album / process_media_group), the ban command (ban_command      *)
(* with parse_duration and is_user_admin), the command registry            *)
(* (command_exists) and the informational and savant command handlers      *)
(* (generic_info_command, savant_command_handler, send_private_message).   *)
(***************************************************************************)
EXTENDS Integers, Sequences, FiniteSets, TLC

VARIABLES
    pubs,          \* envoyer_pub_entreprise: the 'pub' mapping read when the loop starts (its keys)
    clock,         \* wall clock in Africa/Cairo at the loop's latest poll (a time point)
    deja_envoye,   \* envoyer_pub_entreprise: the date keys already marked as sent
    pubLog,        \* broadcasts attempted: sequence of [day, hour, num, media, ok]
    slotPolls,     \* history: the <<day, position>> slots whose hour was polled during minute 0
    media_groups,  \* media_groups: album key -> buffered photo messages (<< >>: key absent)
    timers,        \* timers: the album keys that hold a timer handle
    tasks,         \* the process_media_group tasks created so far, in creation order
    photoCount,    \* photo messages received so far; the n-th one is message n
    delCalls,      \* photo messages on which delete() was called
    ban,           \* the ban_command invocation in progress: its position, locals and calls made
    lookups,       \* history: the command_exists calls made, each with its argument and result
    cmd,           \* the command handler in progress: position, locals, calls
    MESSAGES,      \* the version of the catalog that the global MESSAGES refers to
    loops,         \* the scheduler loops that are running as tasks
    rem,           \* the reminder loops: position, clock read at the latest poll, sleep, texts sent
    bot,           \* the application: not built, built with its handlers, or polling for updates
    parsed,        \* the latest call of parse_duration: its argument and what it gave
    chatMember,    \* the chat_member_handler invocation in progress: the status change, position, calls
    pubCatalog     \* envoyer_pub_entreprise: the catalog version its pubs, prefix, suffix and separation were read from

pubVars == <<pubs, clock, deja_envoye, pubLog, slotPolls, pubCatalog>>
albumVars == <<media_groups, timers, tasks, photoCount, delCalls>>
cmdVars == <<lookups, cmd, chatMember>>
schedVars == <<MESSAGES, loops, rem, bot>>
vars == <<pubVars, albumVars, ban, cmdVars, schedVars, parsed>>

(***************************************************************************)
(* Bounds of the model.                                                    *)
(***************************************************************************)
MaxPub == 4        \* promotional entries e1 .. eMaxPub may be in the catalog
MaxDay == 1        \* the clock runs over days 0 .. MaxDay since the reference date
MaxPhotos == 6     \* photo messages received in one run
MaxNow == 1        \* a ban is issued at minute 0 .. MaxNow of the clock
MaxLag == 1        \* an awaited call or sleep returns 0 .. MaxLag seconds late
MaxReload == 2     \* catalog reloads in one run
MaxTokenLen == 3   \* every duration token of 1 .. MaxTokenLen characters is tried

(***************************************************************************)
(* The clock.  A time point stands for "minute 0" or for "minutes 1..59"   *)
(* of one hour of one day; days are counted from jour_debut (2025-06-20),  *)
(* so that delta_jours is the day of the time point.  (jour_debut carries  *)
(* pytz's local-mean-time offset, which moves the change of delta_jours    *)
(* some minutes away from midnight; from 01:00 to 23:54, the hours of all  *)
(* slots included, delta_jours is the calendar day as modelled here.)      *)
(***************************************************************************)
HoursPerDay == 24
FirstSlotHour == 12
CycleLength == 3

PointsPerDay == 2 * HoursPerDay
LastPoint == (MaxDay + 1) * PointsPerDay - 1
Days == 0..MaxDay

DayOf(t) == t \div PointsPerDay
HourOf(t) == (t % PointsPerDay) \div 2
MinuteOf(t) == IF t % 2 = 0 THEN 0 ELSE 30

(***************************************************************************)
(* The catalog's 'pub' mapping: entries "e<n>" and link entries "le<n>_1". *)
(***************************************************************************)
PubKeys == [kind : {"e"}, num : 1..MaxPub] \cup [kind : {"le"}, num : {1}]

\* int(cle[1:]) : "e4"[1:] = "4" parses; "le1_1"[1:] = "e1_1" raises ValueError
ParsesAsInt(cle) == cle.kind = "e"

Numero(cle) == cle.num

RECURSIVE SortByNumero(_)
SortByNumero(S) ==
    IF S = {} THEN << >>
    ELSE LET lo == CHOOSE c \in S : \A o \in S : Numero(c) <= Numero(o)
         IN  <<lo>> \o SortByNumero(S \ {lo})

\* pubs_du_jour for the day whose delta_jours is d
PubsDuJour(d) ==
    LET jour_cycle == d % CycleLength
    IN  SortByNumero({c \in pubs : ParsesAsInt(c) /\ (Numero(c) - 1) % CycleLength = jour_cycle})

MediaOutcomes == {"none", "ok", "raise"}   \* no image file / send_media_group returns / raises
SendOutcomes == {"ok", "raise"}            \* send_message returns / raises

\* the test that guards one slot's broadcast
SlotDue(t, i, deja) ==
    /\ HourOf(t) = FirstSlotHour + (i - 1)
    /\ MinuteOf(t) = 0
    /\ DayOf(t) \notin deja

\* faulty variant: the day is never marked
MarksDay_Never(t) == FALSE

\* the test that marks the day as sent
MarksDay(t) == HourOf(t) >= FirstSlotHour

\* One pass of "for i, (_, cle) in enumerate(pubs_du_jour)" from position i on,
\* threading deja_envoye and the log through the iterations.
RECURSIVE ForSlots(_, _, _, _, _, _)
ForSlots(t, L, i, st, mo, so) ==
    IF i > Len(L) THEN st
    ELSE LET log1 == IF SlotDue(t, i, st.deja)
                     THEN Append(st.log, [day |-> DayOf(t), hour |-> HourOf(t),
                                          num |-> Numero(L[i]), media |-> mo,
                                          ok |-> (so = "ok")])
                     ELSE st.log
             deja1 == IF MarksDay(t) THEN st.deja \cup {DayOf(t)} ELSE st.deja
         IN  ForSlots(t, L, i + 1, [deja |-> deja1, log |-> log1], mo, so)

\* One iteration of the "while True" loop, polling the clock at time point t.
PollPub(t, mo, so) ==
    LET L == PubsDuJour(DayOf(t))
        st == ForSlots(t, L, 1, [deja |-> deja_envoye, log |-> pubLog], mo, so)
        polled == {<<DayOf(t), i>> : i \in {j \in 1..Len(L) :
                        HourOf(t) = FirstSlotHour + (j - 1) /\ MinuteOf(t) = 0}}
    IN  /\ clock' = t
        /\ deja_envoye' = st.deja
        /\ pubLog' = st.log
        /\ slotPolls' = slotPolls \cup polled
        /\ UNCHANGED <<pubs, pubCatalog, schedVars, parsed, albumVars, ban, cmdVars>>

InitBroadcast ==
    /\ pubs \in SUBSET PubKeys
    /\ clock \in 0..(PointsPerDay - 1)
    /\ deja_envoye = {}
    /\ pubLog = << >>
    /\ slotPolls = {}
    /\ pubCatalog = 0

\* asyncio.sleep(60) between two polls: the next poll reads the same time point
\* (the wall clock was set back), the next one, or the one after it (minute 0 of
\* an hour is missed when the loop drifts past it).
PollAdvance == {0, 1, 2}

\* the platform's answers matter only to a poll that falls on minute 0 of a slot hour
OnSlotHour(t) ==
    /\ MinuteOf(t) = 0
    /\ HourOf(t) - FirstSlotHour + 1 \in 1..Len(PubsDuJour(DayOf(t)))

PubLoop ==
    \E adv \in PollAdvance :
        LET t == clock + adv
        IN  /\ t <= LastPoint
            /\ IF OnSlotHour(t)
               THEN \E mo \in MediaOutcomes, so \in SendOutcomes : PollPub(t, mo, so)
               ELSE PollPub(t, "none", "ok")

NextBroadcast == PubLoop

(***************************************************************************)
(* Album aggregator: handle_album and the process_media_group tasks.       *)
(* Every action is one step of the event loop: an awaited call returns     *)
(* with its outcome and the coroutine runs on to its next await.           *)
(***************************************************************************)
WAIT_TIME == 3
ALBUM_LIMIT == 4
WARNING_DELAY == 10

AlbumKeys == {"g1", "g2"}
NoGroup == "none"                                \* message.media_group_id is None

DeleteOutcomes == {"ok", "badrequest", "raise"}  \* message.delete(): returns / BadRequest / another error
Ended == {"done", "crashed"}

\* a task as asyncio.create_task(process_media_group(...)) makes it: suspended in
\* asyncio.sleep(WAIT_TIME).  snap and late are history: the buffer the task found
\* on waking, and whether a photo of its key arrived after it woke.
NewTask(k) ==
    [key |-> k, pc |-> "sleep", idx |-> 0, snap |-> << >>, late |-> FALSE,
     warnCalls |-> 0, warnDeleteCalls |-> 0]

Live(tk) == tk.pc \notin Ended

LiveTasks(k) == {i \in 1..Len(tasks) : tasks[i].key = k /\ Live(tasks[i])}

MarkLate(ts, k) ==
    [i \in 1..Len(ts) |->
        IF ts[i].key = k /\ Live(ts[i]) /\ ts[i].pc # "sleep"
        THEN [ts[i] EXCEPT !.late = TRUE] ELSE ts[i]]

\* faulty variant: every photo schedules a timer
NeedsTimer_Always(k) == TRUE

\* "if group_id not in timers"
NeedsTimer(k) == k \notin timers

\* handle_album for a photo message whose media_group_id is k
HandleAlbum(k) ==
    /\ photoCount < MaxPhotos
    /\ photoCount' = photoCount + 1
    /\ IF k = NoGroup
       THEN UNCHANGED <<media_groups, timers, tasks>>
       ELSE /\ media_groups' = [media_groups EXCEPT ![k] = Append(@, photoCount + 1)]
            /\ IF NeedsTimer(k)
               THEN /\ timers' = timers \cup {k}
                    /\ tasks' = Append(MarkLate(tasks, k), NewTask(k))
               ELSE /\ timers' = timers
                    /\ tasks' = MarkLate(tasks, k)
    /\ UNCHANGED <<delCalls, pubVars, schedVars, parsed, ban, cmdVars>>

\* "del media_groups[group_id]; del timers[group_id]" ending task id, whose
\* record is tk by now; del raises KeyError on a key that is absent
Cleanup(id, tk) ==
    LET k == tk.key
    IN  IF media_groups[k] = << >>
        THEN /\ tasks' = [tasks EXCEPT ![id] = [tk EXCEPT !.pc = "crashed"]]
             /\ UNCHANGED <<media_groups, timers>>
        ELSE /\ media_groups' = [media_groups EXCEPT ![k] = << >>]
             /\ IF k \in timers
                THEN /\ timers' = timers \ {k}
                     /\ tasks' = [tasks EXCEPT ![id] = [tk EXCEPT !.pc = "done"]]
                ELSE /\ timers' = timers
                     /\ tasks' = [tasks EXCEPT ![id] = [tk EXCEPT !.pc = "crashed"]]

\* "if total_photos > 4"
OverLimit(total_photos) == total_photos > ALBUM_LIMIT

\* asyncio.sleep(WAIT_TIME) returns: the task reads the buffer and judges it
ExpiryWake(id) ==
    /\ tasks[id].pc = "sleep"
    /\ LET k == tasks[id].key
           messages == media_groups[k]
           tk == [tasks[id] EXCEPT !.snap = messages]
       IN  IF messages = << >>
           THEN /\ tasks' = [tasks EXCEPT ![id] = [tk EXCEPT !.pc = "done"]]
                /\ UNCHANGED <<media_groups, timers, delCalls>>
           ELSE IF OverLimit(Len(messages))
           THEN /\ tasks' = [tasks EXCEPT ![id] = [tk EXCEPT !.pc = "delete", !.idx = 1]]
                /\ delCalls' = delCalls \cup {messages[1]}
                /\ UNCHANGED <<media_groups, timers>>
           ELSE /\ Cleanup(id, tk)
                /\ UNCHANGED delCalls
    /\ UNCHANGED <<photoCount, pubVars, schedVars, parsed, ban, cmdVars>>

\* supprimer_message(msg) of the for loop returns or raises; the loop goes on
\* over the list as it is by now, then send_message is called for the warning
DeleteReturns(id, out) ==
    /\ tasks[id].pc = "delete"
    /\ LET tk == tasks[id]
           messages == media_groups[tk.key]
       IN  IF out = "raise"
           THEN /\ tasks' = [tasks EXCEPT ![id].pc = "crashed"]
                /\ UNCHANGED delCalls
           ELSE IF tk.idx + 1 <= Len(messages)
           THEN /\ tasks' = [tasks EXCEPT ![id].idx = tk.idx + 1]
                /\ delCalls' = delCalls \cup {messages[tk.idx + 1]}
           ELSE /\ tasks' = [tasks EXCEPT ![id].pc = "warn", ![id].warnCalls = tk.warnCalls + 1]
                /\ UNCHANGED delCalls
    /\ UNCHANGED <<media_groups, timers, photoCount, pubVars, schedVars, parsed, ban, cmdVars>>

\* context.bot.send_message of the warning returns or raises
WarningReturns(id, out) ==
    /\ tasks[id].pc = "warn"
    /\ tasks' = [tasks EXCEPT ![id].pc = IF out = "ok" THEN "wait" ELSE "crashed"]
    /\ UNCHANGED <<media_groups, timers, photoCount, delCalls, pubVars, schedVars, parsed, ban, cmdVars>>

\* asyncio.sleep(10) returns: supprimer_message(warning) is called
WarningWaitDone(id) ==
    /\ tasks[id].pc = "wait"
    /\ tasks' = [tasks EXCEPT ![id].pc = "delwarn",
                              ![id].warnDeleteCalls = tasks[id].warnDeleteCalls + 1]
    /\ UNCHANGED <<media_groups, timers, photoCount, delCalls, pubVars, schedVars, parsed, ban, cmdVars>>

\* supprimer_message(warning) returns or raises; then the cleanup
WarningDeleteReturns(id, out) ==
    /\ tasks[id].pc = "delwarn"
    /\ IF out = "raise"
       THEN /\ tasks' = [tasks EXCEPT ![id].pc = "crashed"]
            /\ UNCHANGED <<media_groups, timers>>
       ELSE Cleanup(id, tasks[id])
    /\ UNCHANGED <<photoCount, delCalls, pubVars, schedVars, parsed, ban, cmdVars>>

InitAlbum ==
    /\ media_groups = [k \in AlbumKeys |-> << >>]
    /\ timers = {}
    /\ tasks = << >>
    /\ photoCount = 0
    /\ delCalls = {}

NextAlbum ==
    \/ \E k \in AlbumKeys \cup {NoGroup} : HandleAlbum(k)
    \/ \E id \in 1..Len(tasks) : ExpiryWake(id)
    \/ \E id \in 1..Len(tasks), out \in DeleteOutcomes : DeleteReturns(id, out)
    \/ \E id \in 1..Len(tasks), out \in SendOutcomes : WarningReturns(id, out)
    \/ \E id \in 1..Len(tasks) : WarningWaitDone(id)
    \/ \E id \in 1..Len(tasks), out \in DeleteOutcomes : WarningDeleteReturns(id, out)

\* the broadcast loop with an empty catalog, not polled
PubIdle ==
    /\ pubs = {}
    /\ clock = 0
    /\ deja_envoye = {}
    /\ pubLog = << >>
    /\ slotPolls = {}
    /\ pubCatalog = 0



(***************************************************************************)
(* Duration parser (parse_duration).  A token is a sequence of characters. *)
(***************************************************************************)
DigitVal == [c \in {"0", "1", "2", "3", "4", "5", "6", "7", "8", "9"} |->
                CASE c = "0" -> 0 [] c = "1" -> 1 [] c = "2" -> 2 [] c = "3" -> 3
                  [] c = "4" -> 4 [] c = "5" -> 5 [] c = "6" -> 6 [] c = "7" -> 7
                  [] c = "8" -> 8 [] c = "9" -> 9]

UpperToLower == [c \in {"D", "H", "J", "M", "P", "E", "R"} |->
                    CASE c = "D" -> "d" [] c = "H" -> "h" [] c = "J" -> "j"
                      [] c = "M" -> "m" [] c = "P" -> "p" [] c = "E" -> "e"
                      [] c = "R" -> "r"]

\* str.lower()
Lower(str) ==
    [i \in 1..Len(str) |->
        IF str[i] \in DOMAIN UpperToLower THEN UpperToLower[str[i]] ELSE str[i]]

PermanentWords ==
    { <<"p", "e", "r", "m", "a", "n", "e", "n", "t">>,
      <<"p", "e", "r", "m">>,
      <<"d", "e", "f", "i", "n", "i", "t", "i", "f">> }

DurationUnits == {"m", "h", "d", "j"}

\* faulty variant: a magnitude of zero does not match
MatchesDuration_NonZero(str) ==
    /\ Len(str) >= 2
    /\ \A i \in 1..(Len(str) - 1) : str[i] \in DOMAIN DigitVal
    /\ \E i \in 1..(Len(str) - 1) : str[i] # "0"
    /\ str[Len(str)] \in DurationUnits

\* re.match(r'^(\d+)([mhdj])$', s)
MatchesDuration(str) ==
    /\ Len(str) >= 2
    /\ \A i \in 1..(Len(str) - 1) : str[i] \in DOMAIN DigitVal
    /\ str[Len(str)] \in DurationUnits

\* int(number)
RECURSIVE IntOf(_)
IntOf(digits) ==
    IF digits = << >> THEN 0
    ELSE 10 * IntOf(SubSeq(digits, 1, Len(digits) - 1)) + DigitVal[digits[Len(digits)]]

MinutesPerHour == 60
MinutesPerDay == 1440

\* the three results: None (permanent), False (invalid), a timedelta (in minutes);
\* and the call that ends by OverflowError instead of returning
DurationNone == [kind |-> "none", minutes |-> 0]
DurationInvalid == [kind |-> "invalid", minutes |-> 0]
Timedelta(m) == [kind |-> "span", minutes |-> m]
DurationRaises == [kind |-> "raises", minutes |-> 0]

\* a digit string without its leading zeros
RECURSIVE StripZeros(_)
StripZeros(digits) ==
    IF digits # << >> /\ Head(digits) = "0" THEN StripZeros(Tail(digits)) ELSE digits

\* a > b for two digit strings without leading zeros
NumGreater(a, b) ==
    \/ Len(a) > Len(b)
    \/ /\ Len(a) = Len(b)
       /\ \E i \in 1..Len(a) :
            /\ DigitVal[a[i]] > DigitVal[b[i]]
            /\ \A j \in 1..(i - 1) : a[j] = b[j]

\* the largest magnitudes timedelta() takes: a timedelta holds at most 999999999 days
TimedeltaMax(unit) ==
    IF unit = "m" THEN <<"1", "4", "3", "9", "9", "9", "9", "9", "9", "9", "9", "9", "9">>
    ELSE IF unit = "h" THEN <<"2", "3", "9", "9", "9", "9", "9", "9", "9", "9", "9">>
    ELSE <<"9", "9", "9", "9", "9", "9", "9", "9", "9">>

\* timedelta(minutes=number), timedelta(hours=number) or timedelta(days=number)
\* raises OverflowError
TimedeltaOverflows(digits, unit) == NumGreater(StripZeros(digits), TimedeltaMax(unit))

\* the tokens come from context.args, which holds no whitespace, so the '$' of the
\* pattern matches at the end of the string only
parse_duration(duration_str) ==
    IF duration_str = << >> \/ Lower(duration_str) \in PermanentWords
    THEN DurationNone
    ELSE LET str == Lower(duration_str)
         IN  IF ~MatchesDuration(str) THEN DurationInvalid
             ELSE IF TimedeltaOverflows(SubSeq(str, 1, Len(str) - 1), str[Len(str)])
             THEN DurationRaises
             ELSE LET number == IntOf(SubSeq(str, 1, Len(str) - 1))
                      unit == str[Len(str)]
                  IN  IF unit = "m" THEN Timedelta(number)
                      ELSE IF unit = "h" THEN Timedelta(MinutesPerHour * number)
                      ELSE Timedelta(MinutesPerDay * number)

\* the characters the short tokens are made of
TokenAlphabet == {"0", "1", "5", "7", "m", "h", "d", "j", "H", "x", "-"}

\* every token of 1 .. MaxTokenLen characters, and some longer ones
DurationTokens ==
    UNION {[1..n -> TokenAlphabet] : n \in 1..MaxTokenLen}
        \cup PermanentWords
        \cup { <<"P", "E", "R", "M">>, <<"P", "e", "r", "m", "a", "n", "e", "n", "t">>,
               <<"D", "E", "f", "i", "n", "i", "t", "i", "f">>,
               <<"p", "e", "r", "m", "a">>, <<"a", "b", "c">>,
               <<"1", "4", "9", "1", "3", "0", "8", "d">>,
               <<"1", "0", "0", "0", "0", "0", "0", "0", "0", "0", "d">>,
               <<"0", "1", "0", "0", "0", "0", "0", "0", "0", "0", "0", "J">>,
               <<"2", "4", "0", "0", "0", "0", "0", "0", "0", "0", "0", "h">>,
               <<"1", "4", "4", "0", "0", "0", "0", "0", "0", "0", "0", "0", "0", "m">> }

NoParse == [token |-> << >>, result |-> DurationNone, called |-> FALSE]

\* parse_duration(token) is called, once in a run
ParseDuration(token) ==
    /\ ~parsed.called
    /\ parsed' = [token |-> token, result |-> parse_duration(token), called |-> TRUE]
    /\ UNCHANGED <<pubVars, albumVars, ban, cmdVars, schedVars>>

NextParser == \E token \in DurationTokens : ParseDuration(token)

InitParser == parsed = NoParse

(***************************************************************************)
(* Admin guard (is_user_admin).                                            *)
(***************************************************************************)
Roles == {"owner", "administrator", "member", "left"}
QueryRaises == "raise"                   \* get_chat_member raised

\* faulty variant: a failed membership query counts as admin
is_user_admin_FailOpen(q) == q \in {"administrator", "owner", QueryRaises}

\* q: the status get_chat_member returned, or QueryRaises
is_user_admin(q) == q \in {"administrator", "owner"}

(***************************************************************************)
(* Ban command (ban_command).  As for the album tasks, an action is one    *)
(* awaited call returning and the handler running on to its next await.    *)
(***************************************************************************)
ChatTypes == {"private", "group", "supergroup", "channel"}
ReplyTargets == {"none", "self", "other"}   \* reply_to_message: absent / from the actor / from another user

\* context.args[0] in the model: the duration tokens tried
ArgTokens ==
    { <<"1", "h">>, <<"7", "d">>, <<"2", "j">>, <<"1", "H">>, <<"0", "m">>,
      <<"p", "e", "r", "m", "a", "n", "e", "n", "t">>, <<"P", "E", "R", "M">>,
      <<"a", "b", "c">>, <<"1", "x">>, <<"-", "5", "h">> }

\* context.args: no argument, or the duration token first
ArgLists == {<< >>} \cup {<<tok>> : tok \in ArgTokens}

\* "duration_str = args[0] if args else 'permanent'"
DurationStr(args) ==
    IF args # << >> THEN args[1] ELSE <<"p", "e", "r", "m", "a", "n", "e", "n", "t">>

NoExpiry == [set |-> FALSE, at |-> 0]
ExpiryAt(t) == [set |-> TRUE, at |-> t]

\* python truth value of duration: None and timedelta(0) are false
Truthy(duration) == duration.kind = "span" /\ duration.minutes # 0

\* "until_date = datetime.now(timezone_egypt) + duration if duration else None"
UntilDate(now, duration) ==
    IF Truthy(duration) THEN ExpiryAt(now + duration.minutes) ELSE NoExpiry

BanOutcomes == {"ok", "not_participant", "badrequest", "error"}
    \* ban_chat_member: returns / BadRequest "user_not_participant" / another BadRequest / another error

BanIdle ==
    [pc |-> "idle", hasMessage |-> FALSE, chatType |-> "private", reply |-> "none", args |-> << >>,
     actorRole |-> "member", actorQ |-> "member", targetRole |-> "member",
     targetQ |-> "member", now |-> 0, duration |-> DurationNone,
     until_date |-> NoExpiry, ban_success |-> FALSE, ban_error |-> "none",
     confirmation_msg |-> "none", pending |-> "none", delay |-> 0,
     replies |-> << >>, banCalls |-> << >>, privCalls |-> << >>, deleteCalls |-> 0]

\* "chat.type in ['group', 'supergroup']"
InGroup(chatType) == chatType \in {"group", "supergroup"}

\* faulty variant: the self-ban test is left out
IsSelf_Never(reply) == FALSE

\* "target_user.id == user.id"
IsSelf(reply) == reply = "self"

\* faulty variant: every rejection answers with the permission message
RejectWith_SameText(b, tpl, d) ==
    [b EXCEPT !.pc = "reject_reply", !.pending = "not_admin", !.delay = d]

\* a validation rejection: reply_text(tpl) is awaited; afterwards the handler
\* sleeps delay seconds and deletes the command message (delay 0: returns at once)
RejectWith(b, tpl, d) == [b EXCEPT !.pc = "reject_reply", !.pending = tpl, !.delay = d]

\* the dispatcher calls ban_command(update, context)
BanStart(hasMessage, chatType) ==
    /\ ban.pc \in {"idle", "done", "crashed"}
    /\ LET b == [BanIdle EXCEPT !.hasMessage = hasMessage,
                                !.chatType = IF hasMessage THEN chatType ELSE "private"]
       IN  ban' = IF ~hasMessage THEN [b EXCEPT !.pc = "done"]
                  ELSE IF ~InGroup(chatType)
                  THEN RejectWith(b, "not_group", 0)
                  ELSE [b EXCEPT !.pc = "actor_query"]
    /\ UNCHANGED <<pubVars, schedVars, parsed, albumVars, cmdVars>>

\* is_user_admin(context, chat.id, user.id) returns; role is the actor's status,
\* raises says whether get_chat_member raised; reply is update.message.reply_to_message
ActorQueryReturns(role, raises, reply) ==
    /\ ban.pc = "actor_query"
    /\ LET q == IF raises THEN QueryRaises ELSE role
           b == [ban EXCEPT !.actorRole = role, !.actorQ = q, !.reply = reply]
       IN  ban' = IF ~is_user_admin(q) THEN RejectWith(b, "not_admin", 5)
                  ELSE IF reply = "none" THEN RejectWith(b, "usage", 10)
                  ELSE IF IsSelf(reply) THEN RejectWith(b, "self", 5)
                  ELSE [b EXCEPT !.pc = "target_query"]
    /\ UNCHANGED <<pubVars, schedVars, parsed, albumVars, cmdVars>>

\* is_user_admin(context, chat.id, target_user.id) returns; then the arguments
\* are parsed and ban_chat_member is called
TargetQueryReturns(role, raises, args, now) ==
    /\ ban.pc = "target_query"
    /\ LET q == IF raises THEN QueryRaises ELSE role
           b == [ban EXCEPT !.targetRole = role, !.targetQ = q]
           duration == parse_duration(DurationStr(args))
           until_date == UntilDate(now, duration)
       IN  ban' = IF is_user_admin(q) THEN RejectWith(b, "target_admin", 5)
                  ELSE IF duration = DurationInvalid
                  THEN RejectWith([b EXCEPT !.args = args, !.duration = duration],
                                  "bad_duration", 10)
                  ELSE [b EXCEPT !.args = args, !.duration = duration,
                                 !.now = IF Truthy(duration) THEN now ELSE 0,
                                 !.until_date = until_date, !.pc = "ban_call"]
    /\ UNCHANGED <<pubVars, schedVars, parsed, albumVars, cmdVars>>

\* reply_text of a rejection returns or raises
RejectReplyReturns(out) ==
    /\ ban.pc = "reject_reply"
    /\ LET b == [ban EXCEPT !.replies = Append(@, [tpl |-> ban.pending, ok |-> (out = "ok")]),
                            !.pending = "none"]
       IN  ban' = IF out = "raise" THEN [b EXCEPT !.pc = "crashed"]
                  ELSE IF ban.delay = 0 THEN [b EXCEPT !.pc = "done"]
                  ELSE [b EXCEPT !.pc = "sleep"]
    /\ UNCHANGED <<pubVars, schedVars, parsed, albumVars, cmdVars>>

\* asyncio.sleep(delay) returns: supprimer_message(update.message) is called
SleepDone ==
    /\ ban.pc = "sleep"
    /\ ban' = [ban EXCEPT !.pc = "cmd_delete", !.deleteCalls = @ + 1]
    /\ UNCHANGED <<pubVars, schedVars, parsed, albumVars, cmdVars>>

\* supprimer_message(update.message) returns or raises
CmdDeleteReturns(out) ==
    /\ ban.pc = "cmd_delete"
    /\ ban' = [ban EXCEPT !.pc = IF out = "raise" THEN "crashed" ELSE "done"]
    /\ UNCHANGED <<pubVars, schedVars, parsed, albumVars, cmdVars>>

\* the group confirmation chosen after the ban attempt
ConfirmationMsg(ban_success, ban_error) ==
    IF ban_success THEN "confirm_banned"
    ELSE IF ban_error = "not_participant" THEN "confirm_absent"
    ELSE "confirm_failed"

\* the private notice chosen for the target
PrivateMessage(ban_success) ==
    IF ban_success THEN "private_banned" ELSE "private_left"

\* faulty variant: a failed ban attempt ends the handler
ToReport_OnlyOnSuccess(b) ==
    IF b.ban_success
    THEN [b EXCEPT !.confirmation_msg = "confirm_banned", !.pc = "simple_reply"]
    ELSE [b EXCEPT !.pc = "crashed"]

\* the ban attempt is over: the confirmation is composed and
\* reply_text(simple_msg) is called
ToReport(b) ==
    [b EXCEPT !.confirmation_msg = ConfirmationMsg(b.ban_success, b.ban_error),
              !.pc = "simple_reply"]

\* faulty variant: every BadRequest of the first call is retried
IsNotParticipant_AnyBadRequest(out) == out \in {"not_participant", "badrequest"}

\* "except BadRequest as e: ... if 'user_not_participant' in str(e).lower()"
IsNotParticipant(out) == out = "not_participant"

\* the first ban_chat_member returns or raises
BanCallReturns(out) ==
    /\ ban.pc = "ban_call"
    /\ LET b == [ban EXCEPT !.banCalls = Append(@, [until |-> ban.until_date, out |-> out])]
       IN  ban' = IF out = "ok"
                  THEN ToReport([b EXCEPT !.ban_success = TRUE])
                  ELSE IF IsNotParticipant(out)
                  THEN [b EXCEPT !.ban_error = out, !.pc = "retry_call"]
                  ELSE ToReport([b EXCEPT !.ban_error = out])
    /\ UNCHANGED <<pubVars, schedVars, parsed, albumVars, cmdVars>>

\* the preventive ban_chat_member (no until_date) returns or raises
RetryReturns(out) ==
    /\ ban.pc = "retry_call"
    /\ ban' = ToReport([ban EXCEPT !.banCalls = Append(@, [until |-> NoExpiry, out |-> out]),
                                   !.ban_success = (out = "ok")])
    /\ UNCHANGED <<pubVars, schedVars, parsed, albumVars, cmdVars>>

\* the private notice is composed and context.bot.send_message is called
ToPrivate(b) == [b EXCEPT !.pending = PrivateMessage(b.ban_success), !.pc = "private_send"]

\* reply_text(simple_msg) returns or raises
SimpleReplyReturns(out) ==
    /\ ban.pc = "simple_reply"
    /\ ban' = [ban EXCEPT !.replies = Append(@, [tpl |-> "simple", ok |-> (out = "ok")]),
                          !.pc = IF out = "ok" THEN "confirm_sleep" ELSE "fallback_reply"]
    /\ UNCHANGED <<pubVars, schedVars, parsed, albumVars, cmdVars>>

\* asyncio.sleep(1) returns: reply_text(confirmation_msg) is called
ConfirmSleepDone ==
    /\ ban.pc = "confirm_sleep"
    /\ ban' = [ban EXCEPT !.pc = "confirm_reply"]
    /\ UNCHANGED <<pubVars, schedVars, parsed, albumVars, cmdVars>>

\* reply_text(confirmation_msg) returns or raises
ConfirmReplyReturns(out) ==
    /\ ban.pc = "confirm_reply"
    /\ LET b == [ban EXCEPT !.replies = Append(@, [tpl |-> ban.confirmation_msg,
                                                    ok |-> (out = "ok")])]
       IN  ban' = IF out = "ok" THEN ToPrivate(b) ELSE [b EXCEPT !.pc = "fallback_reply"]
    /\ UNCHANGED <<pubVars, schedVars, parsed, albumVars, cmdVars>>

\* reply_text("Test: Ban effectue ...") of the except branch returns or raises
FallbackReplyReturns(out) ==
    /\ ban.pc = "fallback_reply"
    /\ ban' = ToPrivate([ban EXCEPT !.replies = Append(@, [tpl |-> "fallback_test",
                                                            ok |-> (out = "ok")])])
    /\ UNCHANGED <<pubVars, schedVars, parsed, albumVars, cmdVars>>

PrivateOutcomes == {"ok", "refused", "error"}
    \* send_message to the target: returns / BadRequest or Forbidden / another error

\* context.bot.send_message(chat_id=target_user.id, ...) returns or raises
PrivateSendReturns(out) ==
    /\ ban.pc = "private_send"
    /\ LET b == [ban EXCEPT !.privCalls = Append(@, [tpl |-> ban.pending, out |-> out]),
                            !.pending = "none"]
       IN  ban' = IF out = "ok" THEN [b EXCEPT !.pc = "sleep", !.delay = 10]
                  ELSE IF out = "refused" THEN [b EXCEPT !.pc = "caveat_reply"]
                  ELSE [b EXCEPT !.pc = "crashed"]
    /\ UNCHANGED <<pubVars, schedVars, parsed, albumVars, cmdVars>>

\* reply_text of the caveat, in the except (BadRequest, Forbidden) branch
CaveatReplyReturns(out) ==
    /\ ban.pc = "caveat_reply"
    /\ LET b == [ban EXCEPT !.replies = Append(@, [tpl |-> "caveat", ok |-> (out = "ok")])]
       IN  ban' = IF out = "ok" THEN [b EXCEPT !.pc = "sleep", !.delay = 10]
                  ELSE [b EXCEPT !.pc = "crashed"]
    /\ UNCHANGED <<pubVars, schedVars, parsed, albumVars, cmdVars>>

InitBan == ban = BanIdle

NextBan ==
    \/ \E hasMessage \in BOOLEAN, chatType \in ChatTypes : BanStart(hasMessage, chatType)
    \/ \E role \in Roles, raises \in BOOLEAN, reply \in ReplyTargets :
            ActorQueryReturns(role, raises, reply)
    \/ \E role \in Roles, raises \in BOOLEAN, args \in ArgLists, now \in 0..MaxNow :
            TargetQueryReturns(role, raises, args, now)
    \/ \E out \in SendOutcomes : RejectReplyReturns(out)
    \/ SleepDone
    \/ \E out \in DeleteOutcomes : CmdDeleteReturns(out)
    \/ \E out \in BanOutcomes : BanCallReturns(out)
    \/ \E out \in SendOutcomes : RetryReturns(out)
    \/ \E out \in SendOutcomes : SimpleReplyReturns(out)
    \/ ConfirmSleepDone
    \/ \E out \in SendOutcomes : ConfirmReplyReturns(out)
    \/ \E out \in SendOutcomes : FallbackReplyReturns(out)
    \/ \E out \in PrivateOutcomes : PrivateSendReturns(out)
    \/ \E out \in SendOutcomes : CaveatReplyReturns(out)

(***************************************************************************)
(* Command registry and the informational / savant command handlers        *)
(* (command_exists, savant_command_handler, generic_info_command,          *)
(* send_private_message).  Command names and message texts are sequences   *)
(* of characters.                                                          *)
(***************************************************************************)
\* keys of COMMAND_MAPPINGS (two of the ten)
COMMAND_MAPPINGS == { <<"r", "a", "s", "e", "e", "l">>, <<"r", "e", "s", "t", "o", "_", "f", "r">> }

\* keys of SAVANTS_INFO (two of the six)
SAVANTS_INFO == { <<"r", "a", "s", "l", "a", "n">>, <<"a", "d", "i", "l", "_", "s", "a", "y", "i", "d">> }

\* the commands registered with a handler of their own besides the two tables
SystemCommands ==
    { <<"r", "e", "l", "o", "a", "d">>, <<"s", "t", "a", "r", "t">>,
      <<"e", "n", "v", "o", "y", "e", "r", "_", "p", "u", "b", "_", "e", "n", "t", "r", "e", "p", "r", "i", "s", "e">>,
      <<"g", "e", "t", "i", "d">>, <<"h", "e", "l", "p">>, <<"b", "a", "n">> }

\* the literal list of command_exists
ListedCommands ==
    { <<"s", "t", "a", "r", "t">>, <<"r", "e", "l", "o", "a", "d">>, <<"h", "e", "l", "p">>, <<"g", "e", "t", "i", "d">>,
      <<"e", "n", "v", "o", "y", "e", "r", "_", "p", "u", "b", "_", "e", "n", "t", "r", "e", "p", "r", "i", "s", "e">> }

\* s[1:]
AfterSlash(s) == SubSeq(s, 2, Len(s))

\* s.split('@')[0]
BeforeAt(s) ==
    IF \E i \in 1..Len(s) : s[i] = "@"
    THEN SubSeq(s, 1, (CHOOSE i \in 1..Len(s) : s[i] = "@" /\ \A j \in 1..(i - 1) : s[j] # "@") - 1)
    ELSE s

command_exists(command_name) ==
    LET clean_command == BeforeAt(command_name)
    IN  \/ clean_command \in COMMAND_MAPPINGS
        \/ clean_command \in SAVANTS_INFO
        \/ clean_command \in ListedCommands

\* the command names tried: registered ones, and strings that are no command
CommandWords ==
    COMMAND_MAPPINGS \cup SAVANTS_INFO \cup SystemCommands
        \cup { << >>, <<"f", "o", "o">>, <<"b", "a", "n", "n">>, <<"r", "a", "s", "l", "a">> }

\* what may follow the command name in a message: nothing, the bot's name, arguments
AtBot == <<"@", "b", "o", "t">>
Arguments == <<" ", "x">>
Suffixes == { << >>, AtBot, Arguments, AtBot \o Arguments, Arguments \o AtBot }

CommandStrings == {w \o x : w \in CommandWords, x \in Suffixes}

\* command_exists(s) is called; at most two calls are kept
Lookup(s) ==
    /\ Len(lookups) < 2
    /\ lookups' = Append(lookups, [name |-> s, found |-> command_exists(s)])
    /\ UNCHANGED <<pubVars, schedVars, parsed, albumVars, ban, cmd, chatMember>>

NextRegistry == \E s \in CommandStrings : Lookup(s)

\* the handler a table's commands are registered with
Handlers == {"info", "savant"}

HandlerTable(h) == IF h = "savant" THEN SAVANTS_INFO ELSE COMMAND_MAPPINGS

NoMessage == [kind |-> "none", of |-> << >>]

\* the text a handler resolves for a command of its table: MESSAGES[COMMAND_MAPPINGS[command]]
\* or get_savant_info(savant_id)
ResolvedText(h, command) == [kind |-> h, of |-> command]

CmdIdle ==
    [pc |-> "idle", handler |-> "info", text |-> << >>, command |-> << >>,
     message |-> NoMessage, replies |-> << >>, privCalls |-> << >>,
     activateDeleteCalls |-> 0, deleteCalls |-> 0,
     more |-> << >>, reads |-> << >>, responseDeleteCalls |-> 0]

\* send_private_message has returned (True, or False after the public message was
\* posted and deleted): the handler makes its next send_private_message call, whose
\* text argument is read from the catalog now, or goes on to sleep(5)
AfterPrivate(c) ==
    IF c.more = << >>
    THEN [c EXCEPT !.pc = "handler_sleep"]
    ELSE [c EXCEPT !.pc = "private_send", !.message = Head(c.more), !.more = Tail(c.more),
                   !.reads = Append(@, MESSAGES)]

\* "update.message.text[1:].split('@')[0]"
CommandOf(text) == BeforeAt(AfterSlash(text))

\* generic_info_command or savant_command_handler is called for a message that
\* invokes a command of its table: '/' and the command word, then nothing, the bot's
\* name or arguments
CommandStart(h, word, suffix) ==
    /\ cmd.pc \in {"idle", "done", "crashed"}
    /\ word \in HandlerTable(h)
    /\ LET text == <<"/">> \o word \o suffix
           command == CommandOf(text)
           c == [CmdIdle EXCEPT !.handler = h, !.text = text, !.command = command]
       IN  cmd' = IF command \notin HandlerTable(h)
                  THEN [c EXCEPT !.pc = "notfound_reply"]
                  ELSE [c EXCEPT !.pc = "private_send",
                                 !.message = ResolvedText(h, command),
                                 !.reads = IF h = "info" THEN <<MESSAGES>> ELSE << >>]
    /\ UNCHANGED <<pubVars, schedVars, parsed, albumVars, ban, lookups, chatMember>>

\* reply_text("La commande ... n'existe pas ...") returns or raises; then sleep(5)
NotFoundReplyReturns(out) ==
    /\ cmd.pc = "notfound_reply"
    /\ cmd' = [cmd EXCEPT !.replies = Append(@, [tpl |-> "not_found", ok |-> (out = "ok")]),
                          !.pc = IF out = "ok" THEN "handler_sleep" ELSE "crashed"]
    /\ UNCHANGED <<pubVars, schedVars, parsed, albumVars, ban, lookups, chatMember>>

\* send_private_message: context.bot.send_message(chat_id=user.id, ...) returns or
\* raises; "except Exception" posts the public message with the button
SendPrivateReturns(out) ==
    /\ cmd.pc = "private_send"
    /\ LET c == [cmd EXCEPT !.privCalls = Append(@, [text |-> cmd.message, ok |-> (out = "ok")])]
       IN  cmd' = IF out = "ok" THEN AfterPrivate(c) ELSE [c EXCEPT !.pc = "activate_reply"]
    /\ UNCHANGED <<pubVars, schedVars, parsed, albumVars, ban, lookups, chatMember>>

\* reply_text("Je n'ai pas pu t'envoyer le message en prive ...", reply_markup=bouton)
\* returns or raises; then sleep(10)
ActivateReplyReturns(out) ==
    /\ cmd.pc = "activate_reply"
    /\ cmd' = [cmd EXCEPT !.replies = Append(@, [tpl |-> "activate", ok |-> (out = "ok")]),
                          !.pc = IF out = "ok" THEN "activate_sleep" ELSE "crashed"]
    /\ UNCHANGED <<pubVars, schedVars, parsed, albumVars, ban, lookups, chatMember>>

\* asyncio.sleep(10) returns: msg_bot.delete() is called
ActivateSleepDone ==
    /\ cmd.pc = "activate_sleep"
    /\ cmd' = [cmd EXCEPT !.pc = "activate_delete", !.activateDeleteCalls = @ + 1]
    /\ UNCHANGED <<pubVars, schedVars, parsed, albumVars, ban, lookups, chatMember>>

\* msg_bot.delete() returns or raises; nothing catches what it raises
ActivateDeleteReturns(out) ==
    /\ cmd.pc = "activate_delete"
    /\ cmd' = IF out = "ok" THEN AfterPrivate(cmd) ELSE [cmd EXCEPT !.pc = "crashed"]
    /\ UNCHANGED <<pubVars, schedVars, parsed, albumVars, ban, lookups, chatMember>>

\* asyncio.sleep(5) returns: supprimer_message(update.message) is called
HandlerSleepDone ==
    /\ cmd.pc = "handler_sleep"
    /\ cmd' = [cmd EXCEPT !.pc = "handler_delete", !.deleteCalls = @ + 1]
    /\ UNCHANGED <<pubVars, schedVars, parsed, albumVars, ban, lookups, chatMember>>

\* supprimer_message(update.message) returns or raises; unknown_command then
\* calls supprimer_message(response)
HandlerDeleteReturns(out) ==
    /\ cmd.pc = "handler_delete"
    /\ cmd' = IF out = "raise" THEN [cmd EXCEPT !.pc = "crashed"]
              ELSE IF cmd.handler = "unknown"
              THEN [cmd EXCEPT !.pc = "response_delete", !.responseDeleteCalls = @ + 1]
              ELSE [cmd EXCEPT !.pc = "done"]
    /\ UNCHANGED <<pubVars, schedVars, parsed, albumVars, ban, lookups, chatMember>>

(***************************************************************************)
(* Membership changes: extract_status_change and chat_member_handler.      *)
(***************************************************************************)
\* ChatMemberStatus
MemberStatuses == {"creator", "administrator", "member", "restricted", "left", "kicked"}

\* the statuses extract_status_change counts as being a member: MEMBER, OWNER, ADMINISTRATOR
CountedAsMember == {"member", "creator", "administrator"}

extract_status_change(old_status, new_status) ==
    [was_member |-> old_status \in CountedAsMember,
     is_member |-> new_status \in CountedAsMember]

\* faulty variant: every update of a present member is greeted
IsJoin_AnyMember(result) == result.is_member

\* "if not was_member and is_member"
IsJoin(result) == ~result.was_member /\ result.is_member

\* "except Exception as e" around the send, the sleep and the delete
WelcomeCatches(out) == TRUE

WelcomeDelay == 10       \* "await asyncio.sleep(10)"

\* the users a status change may be about: update.chat_member.new_chat_member.user
ChatUsers == {"u1", "u2"}

MemberIdle ==
    [pc |-> "idle", hasEvent |-> FALSE, user |-> "u1", old |-> "left", new |-> "left",
     sends |-> << >>, slept |-> 0, deleteCalls |-> 0, deleteOut |-> "none"]

\* what the handler does once a call of its try block has raised
AfterWelcomeRaise(c, out) ==
    [c EXCEPT !.pc = IF WelcomeCatches(out) THEN "done" ELSE "crashed"]

\* chat_member_handler is called for an update; hasEvent: update.chat_member is set.
\* For a join, send_message of the welcome is awaited
ChatMemberStart(hasEvent, user, old, new) ==
    /\ chatMember.pc \in {"idle", "done", "crashed"}
    /\ LET c == [MemberIdle EXCEPT !.hasEvent = hasEvent, !.user = user, !.old = old, !.new = new]
       IN  chatMember' =
                IF ~hasEvent THEN [MemberIdle EXCEPT !.pc = "done"]
                ELSE IF IsJoin(extract_status_change(old, new))
                THEN [c EXCEPT !.pc = "welcome_send"]
                ELSE [c EXCEPT !.pc = "done"]
    /\ UNCHANGED <<pubVars, schedVars, parsed, albumVars, ban, lookups, cmd>>

\* send_message of the welcome returns or raises; then sleep(10)
WelcomeSendReturns(out) ==
    /\ chatMember.pc = "welcome_send"
    /\ LET c == [chatMember EXCEPT !.sends = Append(@, [to |-> chatMember.user, ok |-> (out = "ok")])]
       IN  chatMember' = IF out = "ok" THEN [c EXCEPT !.pc = "welcome_sleep"]
                         ELSE AfterWelcomeRaise(c, out)
    /\ UNCHANGED <<pubVars, schedVars, parsed, albumVars, ban, lookups, cmd>>

\* asyncio.sleep(10) returns: message_obj.delete() is called
WelcomeSleepDone ==
    /\ chatMember.pc = "welcome_sleep"
    /\ chatMember' = [chatMember EXCEPT !.pc = "welcome_delete", !.slept = WelcomeDelay,
                                        !.deleteCalls = @ + 1]
    /\ UNCHANGED <<pubVars, schedVars, parsed, albumVars, ban, lookups, cmd>>

\* message_obj.delete() returns or raises (BadRequest or another error)
WelcomeDeleteReturns(out) ==
    /\ chatMember.pc = "welcome_delete"
    /\ LET c == [chatMember EXCEPT !.deleteOut = out]
       IN  chatMember' = IF out = "ok" THEN [c EXCEPT !.pc = "done"]
                         ELSE AfterWelcomeRaise(c, out)
    /\ UNCHANGED <<pubVars, schedVars, parsed, albumVars, ban, lookups, cmd>>

NextMember ==
    \/ \E hasEvent \in BOOLEAN, user \in ChatUsers, old \in MemberStatuses, new \in MemberStatuses :
            ChatMemberStart(hasEvent, user, old, new)
    \/ \E out \in SendOutcomes : WelcomeSendReturns(out)
    \/ WelcomeSleepDone
    \/ \E out \in DeleteOutcomes : WelcomeDeleteReturns(out)

InitCmd ==
    /\ lookups = << >>
    /\ cmd = CmdIdle
    /\ chatMember = MemberIdle

NextDispatch ==
    \/ \E h \in Handlers, word \in CommandWords, suffix \in Suffixes : CommandStart(h, word, suffix)
    \/ \E out \in SendOutcomes : NotFoundReplyReturns(out)
    \/ \E out \in SendOutcomes : SendPrivateReturns(out)
    \/ \E out \in SendOutcomes : ActivateReplyReturns(out)
    \/ ActivateSleepDone
    \/ \E out \in DeleteOutcomes : ActivateDeleteReturns(out)
    \/ HandlerSleepDone
    \/ \E out \in DeleteOutcomes : HandlerDeleteReturns(out)

(***************************************************************************)
(* The other command handlers: unknown_command, get_chat_id, help_command, *)
(* start, reload_messages, and the broadcast coroutine registered as the   *)
(* handler of /envoyer_pub_entreprise.                                     *)
(***************************************************************************)
\* the commands a CommandHandler is registered for
Registered == COMMAND_MAPPINGS \cup SAVANTS_INFO \cup SystemCommands

\* the handler starts on the message '/' word suffix
Begin(h, word, suffix) ==
    [CmdIdle EXCEPT !.handler = h, !.text = <<"/">> \o word \o suffix,
                    !.command = CommandOf(<<"/">> \o word \o suffix)]

CmdFree == cmd.pc \in {"idle", "done", "crashed"}

\* unknown_command is called for a command no CommandHandler took: reply_text is awaited
UnknownStart(word, suffix) ==
    /\ CmdFree
    /\ word # << >> /\ word \notin Registered
    /\ cmd' = [Begin("unknown", word, suffix) EXCEPT !.pc = "notfound_reply"]
    /\ UNCHANGED <<pubVars, schedVars, parsed, albumVars, ban, lookups, chatMember>>

\* supprimer_message(response) returns or raises
ResponseDeleteReturns(out) ==
    /\ cmd.pc = "response_delete"
    /\ cmd' = [cmd EXCEPT !.pc = IF out = "raise" THEN "crashed" ELSE "done"]
    /\ UNCHANGED <<pubVars, schedVars, parsed, albumVars, ban, lookups, chatMember>>

\* get_chat_id is called: reply_text with the chat's id and type is awaited
GetIdStart(suffix) ==
    /\ CmdFree
    /\ cmd' = [Begin("getid", <<"g", "e", "t", "i", "d">>, suffix) EXCEPT !.pc = "getid_reply"]
    /\ UNCHANGED <<pubVars, schedVars, parsed, albumVars, ban, lookups, chatMember>>

\* the reply of get_chat_id returns or raises: the handler is over
GetIdReplyReturns(out) ==
    /\ cmd.pc = "getid_reply"
    /\ cmd' = [cmd EXCEPT !.replies = Append(@, [tpl |-> "chat_id", ok |-> (out = "ok")]),
                          !.pc = IF out = "ok" THEN "done" ELSE "crashed"]
    /\ UNCHANGED <<pubVars, schedVars, parsed, albumVars, ban, lookups, chatMember>>

\* help_command is called: the help text is sent privately
HelpStart(suffix) ==
    /\ CmdFree
    /\ cmd' = [Begin("help", <<"h", "e", "l", "p">>, suffix) EXCEPT
                    !.pc = "private_send", !.message = [kind |-> "help", of |-> << >>]]
    /\ UNCHANGED <<pubVars, schedVars, parsed, albumVars, ban, lookups, chatMember>>

\* start is called: the greeting is sent privately, MESSAGES['bot_usage'] comes next
StartStart(suffix) ==
    /\ CmdFree
    /\ cmd' = [Begin("start", <<"s", "t", "a", "r", "t">>, suffix) EXCEPT
                    !.pc = "private_send", !.message = [kind |-> "greeting", of |-> << >>],
                    !.more = <<[kind |-> "catalog", of |-> <<"bot_usage">>]>>]
    /\ UNCHANGED <<pubVars, schedVars, parsed, albumVars, ban, lookups, chatMember>>

LoadOutcomes == {"ok", "raise"}    \* charger_messages(): returns the mapping / open or yaml raises

\* reload_messages is called: "MESSAGES = charger_messages()" rebinds the global in
\* one step, then reply_text is awaited; if the load raises the global is untouched
ReloadStart(suffix, out) ==
    /\ CmdFree
    /\ MESSAGES < MaxReload
    /\ LET c == Begin("reload", <<"r", "e", "l", "o", "a", "d">>, suffix)
       IN  IF out = "ok"
           THEN /\ MESSAGES' = MESSAGES + 1
                /\ cmd' = [c EXCEPT !.pc = "reload_reply"]
           ELSE /\ MESSAGES' = MESSAGES
                /\ cmd' = [c EXCEPT !.pc = "crashed"]
    /\ UNCHANGED <<pubVars, albumVars, ban, parsed, lookups, chatMember, loops, rem, bot>>

\* the reply of reload_messages returns or raises; then sleep(5)
ReloadReplyReturns(out) ==
    /\ cmd.pc = "reload_reply"
    /\ cmd' = [cmd EXCEPT !.replies = Append(@, [tpl |-> "reloaded", ok |-> (out = "ok")]),
                          !.pc = IF out = "ok" THEN "handler_sleep" ELSE "crashed"]
    /\ UNCHANGED <<pubVars, schedVars, parsed, albumVars, ban, lookups, chatMember>>

\* the dispatcher calls envoyer_pub_entreprise(update, context): the coroutine
\* function takes one argument, the call raises TypeError
PubCommandStart(suffix) ==
    /\ CmdFree
    /\ cmd' = [Begin("pub", <<"e", "n", "v", "o", "y", "e", "r", "_", "p", "u", "b", "_",
                               "e", "n", "t", "r", "e", "p", "r", "i", "s", "e">>, suffix)
                    EXCEPT !.pc = "crashed"]
    /\ UNCHANGED <<pubVars, schedVars, parsed, albumVars, ban, lookups, chatMember>>

NextSystem ==
    \/ \E word \in CommandWords, suffix \in Suffixes : UnknownStart(word, suffix)
    \/ \E out \in DeleteOutcomes : ResponseDeleteReturns(out)
    \/ \E suffix \in Suffixes : GetIdStart(suffix)
    \/ \E out \in SendOutcomes : GetIdReplyReturns(out)
    \/ \E suffix \in Suffixes : HelpStart(suffix)
    \/ \E suffix \in Suffixes : StartStart(suffix)
    \/ \E suffix \in Suffixes, out \in LoadOutcomes : ReloadStart(suffix, out)
    \/ \E out \in SendOutcomes : ReloadReplyReturns(out)
    \/ \E suffix \in Suffixes : PubCommandStart(suffix)

NextCommands == NextDispatch \/ NextSystem

(***************************************************************************)
(* Reminder loops (envoyer_rappel_lundi_jeudi: Reminder A,                 *)
(* envoyer_rappel_mardi_vendredi_dimanche: Reminder B).  The clock of      *)
(* datetime.now() is counted in seconds from Monday 00:00:00.              *)
(***************************************************************************)
SecondsPerMinute == 60
SecondsPerHour == 60 * SecondsPerMinute
SecondsPerDay == HoursPerDay * SecondsPerHour
DaysPerWeek == 7

ReminderHour == 12
PollSleep == 60          \* "await asyncio.sleep(60)"
FireSleep == 61          \* "await asyncio.sleep(61)"

Weekday(t) == (t \div SecondsPerDay) % DaysPerWeek
HourOfDay(t) == (t % SecondsPerDay) \div SecondsPerHour
MinuteOfHour(t) == (t % SecondsPerHour) \div SecondsPerMinute

Reminders == {"A", "B"}
SchedulerLoops == Reminders \cup {"pub"}

\* the catalog keys a reminder sends, in order
ReminderTexts(l) == IF l = "A" THEN <<"fr", "ar">> ELSE <<"bot_usage">>

\* faulty variant: the weekday is not tested
Fires_AnyDay(l, t) == HourOfDay(t) = ReminderHour /\ MinuteOfHour(t) = 0

\* "maintenant.weekday() in [...] and maintenant.hour == 12 and maintenant.minute == 0"
Fires(l, t) ==
    /\ Weekday(t) \in (IF l = "A" THEN {0, 3} ELSE {1, 4, 6})
    /\ HourOfDay(t) = ReminderHour
    /\ MinuteOfHour(t) = 0

\* faulty variant: what send_message raises leaves the loop
ReminderCatches_Nothing(out) == FALSE

\* "except Exception as e" around the sends
ReminderCatches(out) == TRUE

\* a loop as asyncio.create_task makes it at second t: about to read the clock.
\* now: the clock at the latest poll; spent: seconds spent in the sends since;
\* fired: whether the latest poll fired; sent: the texts handed to send_message,
\* each with the catalog version it was read from and the poll it belongs to
RemStart(t) ==
    [pc |-> "sleep", now |-> t, sleep |-> 0, spent |-> 0, idx |-> 0, fired |-> FALSE,
     sent |-> << >>]

RemOff == [RemStart(0) EXCEPT !.pc = "off"]

\* the run ends some minutes after noon of its day
LastSecond(t) ==
    (t \div SecondsPerDay) * SecondsPerDay + ReminderHour * SecondsPerHour + 3 * SecondsPerMinute

\* send_message(chat_id, text=MESSAGES[key]) is called for text idx of loop l
CallSend(r, l, idx) ==
    [r EXCEPT !.pc = "send", !.idx = idx,
              !.sent = Append(@, [key |-> ReminderTexts(l)[idx], version |-> MESSAGES,
                                  at |-> r.now, status |-> "pending"])]

\* asyncio.sleep returns, lag seconds late: the loop reads the clock and either
\* fires (first send_message called) or sleeps 60 seconds
RemWake(l, lag) ==
    /\ l \in loops
    /\ rem[l].pc = "sleep"
    /\ LET t == rem[l].now + rem[l].spent + rem[l].sleep + lag
           r == [rem[l] EXCEPT !.now = t, !.spent = 0]
       IN  /\ t <= LastSecond(rem[l].now)
           /\ rem' = [rem EXCEPT ![l] =
                        IF Fires(l, t)
                        THEN CallSend([r EXCEPT !.fired = TRUE], l, 1)
                        ELSE [r EXCEPT !.fired = FALSE, !.sleep = PollSleep]]
    /\ UNCHANGED <<pubVars, albumVars, ban, parsed, cmdVars, MESSAGES, loops, bot>>

\* send_message returns or raises after lag seconds: the next text is sent, or
\* the loop sleeps 61 seconds
RemSendReturns(l, out, lag) ==
    /\ l \in loops
    /\ rem[l].pc = "send"
    /\ LET n == Len(rem[l].sent)
           r == [rem[l] EXCEPT !.sent[n].status = out, !.spent = @ + lag]
       IN  IF out = "ok" /\ r.idx < Len(ReminderTexts(l))
           THEN /\ rem' = [rem EXCEPT ![l] = CallSend(r, l, r.idx + 1)]
                /\ loops' = loops
           ELSE IF out = "ok" \/ ReminderCatches(out)
           THEN /\ rem' = [rem EXCEPT ![l] = [r EXCEPT !.pc = "sleep", !.sleep = FireSleep]]
                /\ loops' = loops
           ELSE /\ rem' = [rem EXCEPT ![l] = [r EXCEPT !.pc = "dead"]]
                /\ loops' = loops \ {l}
    /\ UNCHANGED <<pubVars, albumVars, ban, parsed, cmdVars, MESSAGES, bot>>

NextReminder ==
    \/ \E l \in Reminders, lag \in 0..MaxLag : RemWake(l, lag)
    \/ \E l \in Reminders, out \in SendOutcomes, lag \in 0..MaxLag : RemSendReturns(l, out, lag)

\* the broadcast loop polls while its task is alive
PubLoopRuns == "pub" \in loops /\ PubLoop

\* os.listdir(image_dir) raises in the iteration of a due slot (the directory
\* is missing or unreadable): nothing around it catches, the exception leaves
\* the coroutine and the task ends before anything was sent for the slot
PubListdirFails ==
    /\ "pub" \in loops
    /\ \E adv \in PollAdvance :
        LET t == clock + adv
            L == PubsDuJour(DayOf(t))
        IN  /\ t <= LastPoint
            /\ \E i \in 1..Len(L) :
                LET st == ForSlots(t, SubSeq(L, 1, i - 1), 1,
                                   [deja |-> deja_envoye, log |-> pubLog], "none", "ok")
                IN  /\ SlotDue(t, i, st.deja)
                    /\ clock' = t
                    /\ deja_envoye' = st.deja
                    /\ pubLog' = st.log
                    /\ slotPolls' = slotPolls \cup {<<DayOf(t), i>>}
    /\ loops' = loops \ {"pub"}
    /\ UNCHANGED <<pubs, pubCatalog, albumVars, ban, parsed, cmdVars, MESSAGES, rem, bot>>

NextScheduler ==
    \/ NextReminder
    \/ PubLoopRuns
    \/ PubListdirFails

(***************************************************************************)
(* Start-up: setup_telegram_bot, run_telegram_bot and the post_init hook.  *)
(***************************************************************************)
\* "Application.builder().token(token).build()": the builder is given no
\* post_init hook, and nothing else in the program calls post_init
PostInitRegistered == FALSE

\* post_init(application): the three create_task calls
post_init(running) == running \cup SchedulerLoops

\* setup_telegram_bot(): without a token it returns None and telegram_app stays
\* None; otherwise the application is built and the handlers are added
SetupTelegramBot(hasToken) ==
    /\ bot = "unset"
    /\ bot' = IF hasToken THEN "built" ELSE "no_token"
    /\ UNCHANGED <<pubVars, albumVars, ban, parsed, cmdVars, MESSAGES, loops, rem>>

\* run_telegram_bot(): telegram_app.run_polling(...) initializes the application,
\* runs the registered post_init hook, if any, and starts fetching updates; on None
\* the attribute access raises and the function logs and returns
RunPolling ==
    /\ bot \in {"built", "no_token"}
    /\ IF bot = "built"
       THEN /\ bot' = "polling"
            /\ loops' = IF PostInitRegistered THEN post_init(loops) ELSE loops
       ELSE /\ bot' = "stopped"
            /\ loops' = loops
    /\ UNCHANGED <<pubVars, albumVars, ban, parsed, cmdVars, MESSAGES, rem>>

\* the dispatcher hands updates to the command handlers while the bot is polling
HandleCommands == bot = "polling" /\ NextCommands

\* the steps of the program from its start; the steps of a scheduler loop need the
\* loop's task in "loops", which RunPolling alone could put there
NextLifecycle ==
    \/ \E hasToken \in BOOLEAN : SetupTelegramBot(hasToken)
    \/ RunPolling
    \/ HandleCommands

\* no scheduler loop was started, the catalog is the one loaded at import
SchedIdle ==
    /\ MESSAGES = 0
    /\ loops = {}
    /\ rem = [l \in Reminders |-> RemOff]
    /\ bot = "unset"

\* the seconds at which the loops may have been started: shortly before noon
StartSeconds ==
    {d * SecondsPerDay + (ReminderHour - 1) * SecondsPerHour + 59 * SecondsPerMinute + s :
        d \in 0..(DaysPerWeek - 1), s \in {0, 59}}

\* both reminder loops were created as tasks, as post_init creates them
InitReminder ==
    /\ MESSAGES = 0
    /\ loops = Reminders
    /\ \E t \in StartSeconds : rem = [l \in Reminders |-> [RemStart(t) EXCEPT !.sleep = PollSleep]]
    /\ bot = "polling"

\* the album aggregator alone: the broadcast loop and the ban command at rest
InitAlbumRun == PubIdle /\ InitAlbum /\ InitBan /\ InitCmd /\ SchedIdle /\ InitParser

SpecAlbum == InitAlbumRun /\ [][NextAlbum]_vars

\* the ban command alone
InitBanRun == PubIdle /\ InitAlbum /\ InitBan /\ InitCmd /\ SchedIdle /\ InitParser

SpecBan == InitBanRun /\ [][NextBan]_vars

\* every awaited call and sleep of an invocation returns or raises in the end
BanProgress ==
    \/ \E role \in Roles, raises \in BOOLEAN, reply \in ReplyTargets :
            ActorQueryReturns(role, raises, reply)
    \/ \E role \in Roles, raises \in BOOLEAN, args \in ArgLists, now \in 0..MaxNow :
            TargetQueryReturns(role, raises, args, now)
    \/ \E out \in SendOutcomes : RejectReplyReturns(out)
    \/ SleepDone
    \/ \E out \in DeleteOutcomes : CmdDeleteReturns(out)
    \/ \E out \in BanOutcomes : BanCallReturns(out)
    \/ \E out \in SendOutcomes : RetryReturns(out)
    \/ \E out \in SendOutcomes : SimpleReplyReturns(out)
    \/ ConfirmSleepDone
    \/ \E out \in SendOutcomes : ConfirmReplyReturns(out)
    \/ \E out \in SendOutcomes : FallbackReplyReturns(out)
    \/ \E out \in PrivateOutcomes : PrivateSendReturns(out)
    \/ \E out \in SendOutcomes : CaveatReplyReturns(out)

SpecBanLive == InitBanRun /\ [][NextBan]_vars /\ WF_vars(BanProgress)

\* the command registry alone
InitRegistryRun == PubIdle /\ InitAlbum /\ InitBan /\ InitCmd /\ SchedIdle /\ InitParser

SpecRegistry == InitRegistryRun /\ [][NextRegistry]_vars

\* the informational and savant command handlers alone
InitDispatchRun == PubIdle /\ InitAlbum /\ InitBan /\ InitCmd /\ SchedIdle /\ InitParser

SpecDispatch == InitDispatchRun /\ [][NextDispatch]_vars

\* the broadcast loop was created as a task, the reminder loops were not
InitPubTask ==
    /\ MESSAGES = 0
    /\ loops = {"pub"}
    /\ rem = [l \in Reminders |-> RemOff]
    /\ bot = "polling"

\* the scheduler loops: either the broadcast loop or the two reminder loops run
InitSchedulerRun ==
    /\ InitAlbum /\ InitBan /\ InitCmd /\ InitParser
    /\ \/ InitBroadcast /\ InitPubTask
       \/ PubIdle /\ InitReminder

SpecScheduler == InitSchedulerRun /\ [][NextScheduler]_vars

\* all command handlers alone
InitCommandsRun == PubIdle /\ InitAlbum /\ InitBan /\ InitCmd /\ SchedIdle /\ InitParser

SpecCommands == InitCommandsRun /\ [][NextCommands]_vars

\* Reminder A runs while /reload and /start are handled
InitReloadRun ==
    /\ PubIdle /\ InitAlbum /\ InitBan /\ InitCmd /\ InitParser
    /\ MESSAGES = 0
    /\ loops = {"A"}
    /\ \E t \in StartSeconds :
            rem = [l \in Reminders |->
                     IF l = "A" THEN [RemStart(t) EXCEPT !.sleep = PollSleep] ELSE RemOff]
    /\ bot = "polling"

NextReload ==
    \/ NextReminder
    \/ \E out \in LoadOutcomes : ReloadStart(<< >>, out)
    \/ \E out \in SendOutcomes : ReloadReplyReturns(out)
    \/ StartStart(<< >>)
    \/ \E out \in SendOutcomes : SendPrivateReturns(out)
    \/ \E out \in SendOutcomes : ActivateReplyReturns(out)
    \/ ActivateSleepDone
    \/ \E out \in DeleteOutcomes : ActivateDeleteReturns(out)
    \/ HandlerSleepDone
    \/ \E out \in DeleteOutcomes : HandlerDeleteReturns(out)

SpecReload == InitReloadRun /\ [][NextReload]_vars

\* the program from its start: nothing is set up
InitLifecycleRun == PubIdle /\ InitAlbum /\ InitBan /\ InitCmd /\ SchedIdle /\ InitParser

SpecLifecycle == InitLifecycleRun /\ [][NextLifecycle]_vars

\* the duration parser alone
InitParserRun == PubIdle /\ InitAlbum /\ InitBan /\ InitCmd /\ SchedIdle /\ InitParser

SpecParser == InitParserRun /\ [][NextParser]_vars

\* the coroutine starts: "pubs = MESSAGES.get('publicite_entreprise', {}).get('pub', {})"
\* and the prefix, suffix and separation are read from the catalog, the whole of
\* it here, once, before "while True"
InitPubFullCatalog ==
    /\ pubs = PubKeys
    /\ clock \in 0..(PointsPerDay - 1)
    /\ deja_envoye = {}
    /\ pubLog = << >>
    /\ slotPolls = {}
    /\ pubCatalog = MESSAGES

\* the broadcast loop runs while /reload is handled
InitPubReloadRun ==
    /\ InitAlbum /\ InitBan /\ InitCmd /\ InitParser
    /\ InitPubTask /\ InitPubFullCatalog

NextPubReload ==
    \/ PubLoopRuns
    \/ \E out \in LoadOutcomes : ReloadStart(<< >>, out)
    \/ \E out \in SendOutcomes : ReloadReplyReturns(out)
    \/ HandlerSleepDone
    \/ \E out \in DeleteOutcomes : HandlerDeleteReturns(out)

SpecPubReload == InitPubReloadRun /\ [][NextPubReload]_vars

\* the membership-change handler alone
InitMemberRun == PubIdle /\ InitAlbum /\ InitBan /\ InitCmd /\ SchedIdle /\ InitParser

SpecMember == InitMemberRun /\ [][NextMember]_vars

\* the reminder loops alone
InitReminderRun == PubIdle /\ InitAlbum /\ InitBan /\ InitCmd /\ InitReminder /\ InitParser

SpecReminder == InitReminderRun /\ [][NextReminder]_vars

Init == InitBroadcast /\ InitAlbum /\ InitBan /\ InitCmd /\ SchedIdle /\ InitParser

SpecBroadcast == Init /\ [][NextBroadcast]_vars

Next ==
    \/ NextBroadcast \/ NextAlbum \/ NextBan \/ NextRegistry \/ NextDispatch
    \/ NextSystem \/ NextParser \/ NextLifecycle \/ NextScheduler \/ NextMember

Spec == Init /\ [][Next]_vars

(***************************************************************************)
(* Broadcast cycle: claims C1 - C3.                                        *)
(***************************************************************************)
SentAt(d, h, num) ==
    \E n \in 1..Len(pubLog) :
        pubLog[n].day = d /\ pubLog[n].hour = h /\ pubLog[n].num = num

DeliveriesOk(d) ==
    \A n \in 1..Len(pubLog) :
        pubLog[n].day = d => (pubLog[n].ok /\ pubLog[n].media # "raise")

SendsOf(d, num) ==
    Cardinality({n \in 1..Len(pubLog) : pubLog[n].day = d /\ pubLog[n].num = num})

\* C1: on a day whose slot list has k entries, when the loop polled during
\* minute 0 of each hour 12 .. 12+k-1 and every delivery of that day succeeded,
\* every entry of the list was sent, the entry at position i during hour 12+i.
C1_EverySlotSent ==
    \A d \in Days :
        LET L == PubsDuJour(d)
        IN  ((\A i \in 1..Len(L) : <<d, i>> \in slotPolls) /\ DeliveriesOk(d))
                => \A i \in 1..Len(L) : SentAt(d, FirstSlotHour + (i - 1), Numero(L[i]))

\* C2: the date key of the current day is in the sent set only once the clock
\* has reached the hour of that day's last scheduled slot.
C2_KeyOnlyAfterLastSlot ==
    \A d \in deja_envoye :
        d = DayOf(clock) =>
            HourOf(clock) >= FirstSlotHour + (Len(PubsDuJour(d)) - 1)

C3_AtMostOnce ==
    \A d \in Days : \A c \in pubs : ParsesAsInt(c) => SendsOf(d, Numero(c)) <= 1

C3_NoSendAfterKey ==
    \A d \in deja_envoye :
        \A n \in 1..Len(pubLog') : n > Len(pubLog) => pubLog'[n].day # d

C3_NextDayEligible ==
    LET d == DayOf(clock')
        L == PubsDuJour(d)
    IN  (/\ HourOf(clock') = FirstSlotHour
         /\ MinuteOf(clock') = 0
         /\ d \notin deja_envoye
         /\ L # << >>)
            => /\ Len(pubLog') = Len(pubLog) + 1
               /\ pubLog'[Len(pubLog')].day = d
               /\ pubLog'[Len(pubLog')].num = Numero(L[1])

\* C3: within one calendar day each promotional entry is sent at most once,
\* however often the loop polls; once the day's date key is in the sent set no
\* entry is sent for the rest of that day; a poll at the first slot of a day
\* whose key is not yet in the set sends that day's first entry, whatever keys
\* of earlier days the set holds.
C3_DedupPerDay ==
    /\ []C3_AtMostOnce
    /\ [][C3_NoSendAfterKey /\ C3_NextDayEligible]_vars

\* an entry was sent on day 0, day 0 is marked, and an entry was sent on day 1
C3_Witness ==
    /\ 0 \in deja_envoye
    /\ \E n \in 1..Len(pubLog) : pubLog[n].day = 0
    /\ \E n \in 1..Len(pubLog) : pubLog[n].day = 1
    /\ HourOf(clock) > FirstSlotHour
    /\ DayOf(clock) = 1

(***************************************************************************)
(* Album aggregator: claims C4 - C6.                                       *)
(***************************************************************************)
\* C4: an expiry whose photos all arrived within the quiet period: with 5 or
\* more buffered, a delete was issued for every buffered photo and exactly one
\* warning was sent and its delete issued; with 4 or fewer, no photo was deleted
\* and no warning sent.
C4_AlbumVerdict ==
    \A id \in 1..Len(tasks) :
        LET tk == tasks[id]
        IN  (tk.pc \in Ended /\ ~tk.late) =>
                IF Len(tk.snap) >= ALBUM_LIMIT + 1
                THEN /\ \A n \in 1..Len(tk.snap) : tk.snap[n] \in delCalls
                     /\ tk.warnCalls = 1
                     /\ tk.warnDeleteCalls = 1
                ELSE /\ \A n \in 1..Len(tk.snap) : tk.snap[n] \notin delCalls
                     /\ tk.warnCalls = 0

C5_OneTimerPerKey ==
    \A k \in AlbumKeys :
        /\ Cardinality(LiveTasks(k)) <= 1
        /\ LiveTasks(k) # {} => k \in timers
        /\ k \in timers <=> media_groups[k] # << >>
        /\ \A m, n \in 1..Len(media_groups[k]) :
                m < n => media_groups[k][m] < media_groups[k][n]

C5_PhotoStep ==
    \A k \in AlbumKeys :
        (photoCount' = photoCount + 1 /\ media_groups'[k] # media_groups[k]) =>
            IF k \notin timers
            THEN /\ media_groups'[k] = <<photoCount'>>
                 /\ timers' = timers \cup {k}
                 /\ Len(tasks') = Len(tasks) + 1
                 /\ LiveTasks(k)' = {Len(tasks')}
                 /\ tasks'[Len(tasks')].pc = "sleep"
            ELSE /\ media_groups'[k] = Append(media_groups[k], photoCount')
                 /\ timers' = timers
                 /\ Len(tasks') = Len(tasks)
                 /\ \A i \in 1..Len(tasks) : tasks'[i].pc = tasks[i].pc

\* C5: under every interleaving of photo events and expiry tasks each album key
\* has at most one buffer and at most one live expiry task; the first photo of
\* an unseen key creates the buffer and schedules one task, a later photo of the
\* key is appended to the same buffer, in arrival order, and schedules nothing.
C5_AtMostOneTimer ==
    /\ []C5_OneTimerPerKey
    /\ [][C5_PhotoStep]_vars

\* a key on its second album: one expiry ended, a live one holds two photos
C5_Witness ==
    \E k \in AlbumKeys :
        /\ Len(media_groups[k]) >= 2
        /\ LiveTasks(k) # {}
        /\ \E i \in 1..Len(tasks) : tasks[i].key = k /\ tasks[i].pc = "done"

\* C6: every album expiry ends with the buffer and the timer handle removed,
\* so a key that is in the timer map or holds a buffer has a live expiry task.
C6_ExpiryCleansUp ==
    \A k \in AlbumKeys :
        (k \in timers \/ media_groups[k] # << >>) => LiveTasks(k) # {}

(***************************************************************************)
(* Ban command: claims C7 - C10.                                           *)
(***************************************************************************)
AdminStatuses == {"administrator", "owner"}

RejectionTexts == {"not_group", "not_admin", "usage", "self", "target_admin", "bad_duration"}

\* a ban_chat_member call was made in this invocation (it returned, or is awaited)
BanIssued == ban.banCalls # << >> \/ ban.pc \in {"ban_call", "retry_call"}

\* a private notice to the target was sent or is being sent
PrivateIssued == ban.privCalls # << >> \/ ban.pc \in {"private_send", "caveat_reply"}

\* C7: a ban command whose reply target is the invoking actor never results in
\* a platform ban call, whatever the actor's role, the duration token and the
\* outcome of the membership queries.
C7_NoSelfBan == ban.reply = "self" => ~BanIssued

\* an administrator replied to their own message and was turned away
C7_Witness ==
    /\ ban.reply = "self"
    /\ ban.actorQ \in AdminStatuses
    /\ ban.pc = "done"
    /\ ban.replies = <<[tpl |-> "self", ok |-> TRUE]>>

\* the cause a rejection text names holds of the invocation
CauseHolds(tpl) ==
    CASE tpl = "not_group" -> ban.chatType \notin {"group", "supergroup"}
      [] tpl = "not_admin" -> ban.actorQ \notin AdminStatuses
      [] tpl = "usage" -> ban.reply = "none"
      [] tpl = "self" -> ban.reply = "self"
      [] tpl = "target_admin" -> ban.targetQ \in AdminStatuses
      [] tpl = "bad_duration" -> ban.duration = DurationInvalid

\* C8: an invocation that validation rejects answers with the one text of a
\* cause that holds of it, and makes no ban call, sends no group confirmation
\* and no private notice; an invocation that stops before any ban call has
\* answered with such a text.
C8_RejectionOnly ==
    /\ \A n \in 1..Len(ban.replies) :
            ban.replies[n].tpl \in RejectionTexts =>
                /\ CauseHolds(ban.replies[n].tpl)
                /\ Len(ban.replies) = 1
                /\ ~BanIssued
                /\ ~PrivateIssued
    /\ (ban.hasMessage /\ ban.pc \in {"sleep", "cmd_delete", "done", "crashed"} /\ ~BanIssued)
            => /\ Len(ban.replies) = 1
               /\ ban.replies[1].tpl \in RejectionTexts

\* every one of the six rejections can end an invocation; here: the target is an admin
C8_Witness ==
    /\ ban.pc = "done"
    /\ ban.replies = <<[tpl |-> "target_admin", ok |-> TRUE]>>
    /\ ban.deleteCalls = 1

\* C9: the admin guard is fail-closed: an actor whose membership query raised
\* or reported a status other than administrator or owner is answered with the
\* permission rejection and never triggers a platform ban call.
C9_FailClosed ==
    /\ BanIssued => ban.actorQ \in AdminStatuses
    /\ (/\ ban.hasMessage
        /\ ban.chatType \in {"group", "supergroup"}
        /\ ban.pc \notin {"idle", "actor_query"}
        /\ ban.actorQ \notin AdminStatuses)
            => /\ ban.pc \in {"reject_reply", "sleep", "cmd_delete", "done", "crashed"}
               /\ IF ban.pc = "reject_reply" THEN ban.pending = "not_admin"
                  ELSE ban.replies[1].tpl = "not_admin"

\* the membership query of an actual administrator raised, and the actor was turned away
C9_Witness ==
    /\ ban.actorQ = QueryRaises
    /\ ban.actorRole \in AdminStatuses
    /\ ban.pc = "done"
    /\ ban.replies = <<[tpl |-> "not_admin", ok |-> TRUE]>>

\* C10: when the duration token parsed to a time span the first ban call
\* carries the expiry now + span; the first ban call has no expiry only when
\* the duration is permanent (no token, or a permanent keyword).
C10_FirstCallExpiry ==
    ban.banCalls # << >> =>
        LET first == ban.banCalls[1]
        IN  /\ ban.duration.kind = "span"
                => first.until = ExpiryAt(ban.now + ban.duration.minutes)
            /\ ~first.until.set
                => (ban.args = << >> \/ Lower(ban.args[1]) \in PermanentWords)

(***************************************************************************)
(* Ban command, execution and report: claims C11 - C17.                    *)
(***************************************************************************)
\* the ban attempt of the invocation is over (the report has begun, or later)
BanAttemptOver ==
    ban.banCalls # << >> /\ ban.pc \notin {"ban_call", "retry_call"}

\* C11: a first ban call rejected with "not participant" is followed by exactly
\* one further ban call, without expiry, whose success marks the ban
\* successful; a first call that succeeds or is rejected for another reason is
\* followed by no further ban call; no invocation makes more than two calls.
C11_RetryOnce ==
    /\ Len(ban.banCalls) <= 2
    /\ ban.pc = "retry_call" =>
            Len(ban.banCalls) = 1 /\ ban.banCalls[1].out = "not_participant"
    /\ Len(ban.banCalls) = 2 =>
            /\ ban.banCalls[1].out = "not_participant"
            /\ ban.banCalls[2].until = NoExpiry
            /\ ban.ban_success <=> ban.banCalls[2].out = "ok"
    /\ BanAttemptOver =>
            IF ban.banCalls[1].out = "not_participant"
            THEN Len(ban.banCalls) = 2
            ELSE /\ Len(ban.banCalls) = 1
                 /\ ban.ban_success <=> ban.banCalls[1].out = "ok"

\* a timed ban of an absent target: the first call carried an expiry, the retry succeeded
C11_Witness ==
    /\ Len(ban.banCalls) = 2
    /\ ban.banCalls[1].until.set
    /\ ban.banCalls[1].out = "not_participant"
    /\ ban.banCalls[2].out = "ok"
    /\ ban.ban_success
    /\ ban.pc = "done"

\* the three outcomes of the ban attempt
OrdinarySuccess == ban.banCalls # << >> /\ ban.banCalls[1].out = "ok"

PreventiveSuccess ==
    /\ Len(ban.banCalls) = 2
    /\ ban.banCalls[1].out = "not_participant"
    /\ ban.banCalls[2].out = "ok"

HardFailure ==
    /\ BanAttemptOver
    /\ ban.banCalls[1].out \notin {"ok", "not_participant"}

\* C12: the group confirmation composed after the ban attempt uses one template
\* for an ordinary success, another for a preventive success (first call
\* rejected as "not participant", retry succeeded) and a third for a hard
\* failure; a preventive success is never reported with the template of an
\* ordinary success.
C12_ThreeTemplates ==
    ban.confirmation_msg # "none" =>
        /\ OrdinarySuccess => ban.confirmation_msg = "confirm_banned"
        /\ PreventiveSuccess => ban.confirmation_msg \notin {"confirm_banned", "confirm_failed"}
        /\ HardFailure => ban.confirmation_msg = "confirm_failed"

\* the messages of the group confirmation step (the caveat is not one of them)
ConfirmationTexts ==
    {"simple", "confirm_banned", "confirm_absent", "confirm_failed", "fallback_test"}

ConfirmationsSent ==
    {n \in 1..Len(ban.replies) : ban.replies[n].tpl \in ConfirmationTexts}

\* the group confirmation step is over and every send of it was delivered
GroupDeliveryOk ==
    /\ BanAttemptOver
    /\ ban.pc \notin {"simple_reply", "confirm_sleep", "confirm_reply", "fallback_reply"}
    /\ \A n \in ConfirmationsSent : ban.replies[n].ok

\* C13: an invocation that passed validation and whose group delivery
\* succeeded has sent exactly one group-visible confirmation message, the
\* caveat about a failed private notice not counted.
C13_OneConfirmation ==
    GroupDeliveryOk => Cardinality(ConfirmationsSent) = 1

\* C14: the private notice says "you had already left" only when the platform
\* reported the target absent (first ban call rejected as "not participant"),
\* and "you were banned" only when the target was banned.
C14_PrivateTemplate ==
    \A n \in 1..Len(ban.privCalls) :
        /\ ban.privCalls[n].tpl = "private_left" =>
                ban.banCalls[1].out = "not_participant"
        /\ ban.privCalls[n].tpl = "private_banned" =>
                ban.banCalls[Len(ban.banCalls)].out = "ok"

\* a group confirmation of this invocation was attempted
ConfirmationAttempted ==
    ban.pc \in {"simple_reply", "confirm_reply", "fallback_reply"} \/ ConfirmationsSent # {}

CaveatIssued ==
    \/ ban.pc = "caveat_reply"
    \/ \E n \in 1..Len(ban.replies) : ban.replies[n].tpl = "caveat"

\* C16: a private notice that could not be delivered, whatever the failure, is
\* answered with the group-visible caveat; the failure does not end the
\* handler, which goes on to the delete of the command message.
C16_PrivateFailureCaught ==
    (ban.privCalls # << >> /\ ban.privCalls[1].out # "ok") =>
        /\ CaveatIssued
        /\ ban.pc \in {"caveat_reply", "sleep", "cmd_delete", "done", "crashed"}
        /\ (ban.pc = "crashed" /\ ban.replies[Len(ban.replies)].ok) => ban.deleteCalls = 1

\* C17: every invocation that handled a message and returned has attempted the
\* delete of the command message: after each validation rejection, a success,
\* a preventive success or a hard failure.
C17_CommandDeleted ==
    (ban.hasMessage /\ ban.pc = "done") => ban.deleteCalls = 1

(***************************************************************************)
(* Command registry and dispatch: claims C18 - C20.                        *)
(***************************************************************************)
\* C18: command resolution answers for every string and, after stripping the
\* suffix from '@' on, reports a command as known exactly when its name is in
\* the savant table, in the informational table or is one of the system
\* commands start, help, getid, reload, envoyer_pub_entreprise and ban;
\* resolving the same string twice gives the same answer.
C18_ResolutionExact ==
    /\ \A n \in 1..Len(lookups) :
            lookups[n].found <=>
                BeforeAt(lookups[n].name) \in SAVANTS_INFO \cup COMMAND_MAPPINGS \cup SystemCommands
    /\ \A m, n \in 1..Len(lookups) :
            lookups[m].name = lookups[n].name => lookups[m].found = lookups[n].found

\* the handler has sent, or is sending, a private message to the invoking user
PrivateAttempted == cmd.pc = "private_send" \/ cmd.privCalls # << >>

\* the handler has answered, or is answering, that the command does not exist
NotFoundAnswered ==
    \/ cmd.pc = "notfound_reply"
    \/ \E n \in 1..Len(cmd.replies) : cmd.replies[n].tpl = "not_found"

\* C19: for every message that invokes a registered informational or savant
\* command the handler attempts a private delivery of that command's resolved
\* text to the invoking user, and never answers "command does not exist".
C19_RegisteredAnswered ==
    cmd.pc # "idle" =>
        /\ ~NotFoundAnswered
        /\ PrivateAttempted
        /\ cmd.message.kind = cmd.handler
        /\ cmd.message.of \in HandlerTable(cmd.handler)

\* the private delivery of the handler's reply failed
PrivateFailed == cmd.privCalls # << >> /\ ~cmd.privCalls[1].ok

\* the public message with the button was posted, or is being posted
ActivatePosted ==
    \/ cmd.pc = "activate_reply"
    \/ \E n \in 1..Len(cmd.replies) : cmd.replies[n].tpl = "activate"

\* C20: when the private delivery fails the public message with the button is
\* posted, its delete is issued after the delay, and the handler goes on to
\* delete the original command message: no handling with a failed private
\* delivery ends before the delete of the command message was issued.
C20_FallbackThenDelete ==
    PrivateFailed =>
        /\ ActivatePosted
        /\ cmd.pc \in {"done", "crashed"} =>
                /\ cmd.activateDeleteCalls = 1
                /\ cmd.deleteCalls = 1

(***************************************************************************)
(* Album aggregator: claim C30.                                            *)
(***************************************************************************)
\* the step removes the buffer of key k at the end of an over-limit expiry
OverLimitBufferRemoved(k) ==
    /\ media_groups[k] # << >>
    /\ media_groups'[k] = << >>
    /\ \E id \in 1..Len(tasks) : tasks[id].key = k /\ tasks[id].pc = "delwarn"

\* C30: no photo accepted into the buffer of an over-limit album stays
\* undeleted: when the buffer is removed, a delete was attempted for every
\* photo in it, including the photos that arrived while the warning was being
\* sent or was waiting to be deleted.
C30_BufferedPhotosDeleted ==
    [][\A k \in AlbumKeys :
            OverLimitBufferRemoved(k) =>
                \A n \in 1..Len(media_groups[k]) : media_groups[k][n] \in delCalls]_vars

(***************************************************************************)
(* Command handlers: claims C21, C22 and C24.                              *)
(***************************************************************************)
\* C21: every command handler that has returned has attempted the delete of
\* the original command message (issued after the fixed sleep), whatever the
\* outcome of its replies and private sends.
C21_CommandAlwaysDeleted ==
    cmd.pc = "done" => cmd.deleteCalls = 1

\* the "does not exist" reply was posted
NotFoundPosted ==
    \E n \in 1..Len(cmd.replies) : cmd.replies[n].tpl = "not_found" /\ cmd.replies[n].ok

\* C22: on every path that posted the "command does not exist" reply, once
\* the handler has returned the delete of the triggering message and the
\* delete of that reply have both been attempted.
C22_NotFoundBothDeleted ==
    (cmd.pc = "done" /\ NotFoundPosted) =>
        /\ cmd.deleteCalls = 1
        /\ cmd.responseDeleteCalls = 1

\* C24: no handler lets an exception propagate to its caller: no handling ends
\* with an exception leaving the handler.
C24_NoPropagation ==
    cmd.pc # "crashed"

(***************************************************************************)
(* Catalog reload: claim C23.                                              *)
(***************************************************************************)
\* C23: a handler or scheduler job emits texts of one catalog version during
\* one handling: the catalog texts one firing of a reminder hands to
\* send_message were all read from the same version of the mapping, and so
\* were the catalog texts read by one command handling.
C23_SingleVersion ==
    /\ \A l \in Reminders : \A m, n \in 1..Len(rem[l].sent) :
            rem[l].sent[m].at = rem[l].sent[n].at =>
                rem[l].sent[m].version = rem[l].sent[n].version
    /\ \A m, n \in 1..Len(cmd.reads) : cmd.reads[m] = cmd.reads[n]

(***************************************************************************)
(* Start-up: claim C27.                                                    *)
(***************************************************************************)
\* C27: once the bot has been set up and is polling, the three scheduler
\* loops (Reminder A, Reminder B, the broadcast cycle) are running as tasks.
C27_LoopsRunning ==
    bot = "polling" => SchedulerLoops \subseteq loops

(***************************************************************************)
(* Duration parser: claims C28 - C29.                                      *)
(***************************************************************************)
Digits == {"0", "1", "2", "3", "4", "5", "6", "7", "8", "9"}

\* the token is an integer followed by one of the unit letters, in either case
IntegerAndUnit(token) ==
    /\ Len(token) >= 2
    /\ \A i \in 1..(Len(token) - 1) : token[i] \in Digits
    /\ token[Len(token)] \in {"m", "h", "d", "j", "M", "H", "D", "J"}

\* the minutes in one unit
UnitMinutes(c) ==
    IF c \in {"m", "M"} THEN 1 ELSE IF c \in {"h", "H"} THEN 60 ELSE 1440

\* C28: the parser returns no-expiry for the words permanent, perm and
\* definitif in any case; a span of n minutes, hours or days for a token that
\* is exactly an integer n followed by m, h, or d/j; and the invalid signal,
\* which differs from no-expiry, for every other non-empty token.
C28_ParserResults ==
    parsed.called /\ parsed.token # << >> =>
        IF Lower(parsed.token) \in PermanentWords
        THEN parsed.result = DurationNone
        ELSE IF IntegerAndUnit(parsed.token)
        THEN /\ parsed.result.kind = "span"
             /\ Len(parsed.token) <= 8 =>
                    parsed.result.minutes =
                        IntOf(SubSeq(parsed.token, 1, Len(parsed.token) - 1))
                            * UnitMinutes(parsed.token[Len(parsed.token)])
        ELSE /\ parsed.result = DurationInvalid
             /\ DurationInvalid # DurationNone

\* the magnitude of the token is zero: one or more "0", then a unit
ZeroMagnitude(token) ==
    /\ IntegerAndUnit(token)
    /\ \A i \in 1..(Len(token) - 1) : token[i] = "0"

\* the token is a minus sign, an integer and a unit
NegativeMagnitude(token) ==
    /\ token # << >> /\ Head(token) = "-"
    /\ IntegerAndUnit(Tail(token))

\* C29 as amended: a token with a zero magnitude and a valid unit is accepted
\* as a span of zero length; a token with a minus sign before the integer is
\* not accepted: the parser reports it as invalid.
C29_ZeroAcceptedNegativeInvalid ==
    parsed.called =>
        /\ ZeroMagnitude(parsed.token) => parsed.result = Timedelta(0)
        /\ NegativeMagnitude(parsed.token) => parsed.result = DurationInvalid

\* the parser was given "-5h"
C29_Witness ==
    /\ parsed.called
    /\ parsed.token = <<"-", "5", "h">>
    /\ parsed.result = DurationInvalid

\* C29 as stated: tokens with a zero or a negative magnitude and a valid unit
\* are accepted as spans and are not reported as invalid.
C29_ZeroAndNegativeAccepted ==
    (parsed.called /\ (ZeroMagnitude(parsed.token) \/ NegativeMagnitude(parsed.token))) =>
        parsed.result.kind = "span"

(***************************************************************************)
(* Scheduler loops: claims C25 - C26.                                      *)
(***************************************************************************)
\* this step records that a delivery call of loop l raised
DeliveryFailed(l) ==
    IF l \in Reminders
    THEN \E n \in 1..Len(rem[l].sent) :
            rem[l].sent[n].status = "pending" /\ rem'[l].sent[n].status = "raise"
    ELSE \E n \in (Len(pubLog) + 1)..Len(pubLog') :
            pubLog'[n].media = "raise" \/ ~pubLog'[n].ok

\* C25: in each of the three scheduler loops an exception raised by a delivery
\* call (send_message, send_media_group) is caught and the loop goes on: the
\* step in which a delivery fails leaves the loop's task alive, and a
\* reminder loop asleep until its next poll.
C25_DeliveryFailureCaught ==
    [][\A l \in SchedulerLoops :
            (l \in loops /\ DeliveryFailed(l)) =>
                /\ l \in loops'
                /\ l \in Reminders => rem'[l].pc = "sleep"]_vars

\* a send of Reminder A raised and the loop has polled the clock again since
C25_Witness ==
    /\ "A" \in loops
    /\ \E n \in 1..Len(rem["A"].sent) :
            rem["A"].sent[n].status = "raise" /\ rem["A"].now > rem["A"].sent[n].at

\* the polls at which loop l handed a text to send_message
FiringsOf(l) == {rem[l].sent[n].at : n \in 1..Len(rem[l].sent)}

\* the number of texts loop l handed to send_message at the poll of second t
TextsSentAt(l, t) == Cardinality({n \in 1..Len(rem[l].sent) : rem[l].sent[n].at = t})

C31_NoAdminTargetBanned ==
    BanIssued => ban.targetRole \notin AdminStatuses

(***************************************************************************)
(* Broadcast cycle and catalog reload: claim C32.                          *)
(***************************************************************************)
\* C32: after a successful reload every broadcast the loop sends is composed
\* from the reloaded catalog: in every step that sends a broadcast, the
\* catalog the loop's entries, prefix, suffix and separation come from is the
\* one the global MESSAGES refers to.
C32_BroadcastFromReloaded ==
    [][Len(pubLog') > Len(pubLog) => pubCatalog = MESSAGES]_vars

(***************************************************************************)
(* Membership changes: claim C33.                                          *)
(***************************************************************************)
\* the welcome was handed to send_message, or is being sent
WelcomeAttempted == chatMember.pc = "welcome_send" \/ chatMember.sends # << >>

\* the welcome was sent
WelcomeSent == Len(chatMember.sends) = 1 /\ chatMember.sends[1].ok

\* C33: the handler posts a welcome exactly when the user's status moves from
\* a status other than member, administrator or owner to one of these three,
\* and posts at most one, to that user; a welcome that was sent gets its delete issued
\* after the sleep of 10 seconds; and a failure of the send or of the delete
\* never leaves the handler.
C33_WelcomeOnJoin ==
    /\ chatMember.pc # "idle" =>
            (WelcomeAttempted <=>
                /\ chatMember.hasEvent
                /\ chatMember.old \notin {"member", "administrator", "creator"}
                /\ chatMember.new \in {"member", "administrator", "creator"})
    /\ Len(chatMember.sends) <= 1
    /\ \A n \in 1..Len(chatMember.sends) : chatMember.sends[n].to = chatMember.user
    /\ chatMember.deleteCalls = 1 => (WelcomeSent /\ chatMember.slept = 10)
    /\ (chatMember.pc = "done" /\ WelcomeSent) => chatMember.deleteCalls = 1
    /\ chatMember.pc # "crashed"

\* a user who had left joined, was greeted, and the delete of the welcome raised
C33_Witness ==
    /\ chatMember.pc = "done"
    /\ chatMember.old = "left" /\ chatMember.new = "member"
    /\ WelcomeSent
    /\ chatMember.deleteCalls = 1
    /\ chatMember.deleteOut = "raise"

=============================================================================
